---------------------------- MODULE Spec2Model ----------------------------
(***************************************************************************)
(* Panis, a side-scrolling platformer for the Flipper Zero.                *)
(*                                                                         *)
(* The module models the two camera-scrolling programs of the repository:  *)
(*   - the grid variant, the last program of src/bread.c (lines 606-1225): *)
(*     collision grid, pills, jump-height cap;                              *)
(*   - the plain variant, src/unnamed/part_000: the same movement and      *)
(*     double-press jump without a grid.                                   *)
(* The variable `variant` says which program a behaviour runs.             *)
(*                                                                         *)
(* C integer arithmetic is kept: `/` truncates toward zero (CDiv), the     *)
(* tick counter is a uint32_t (U32Sub).                                    *)
(***************************************************************************)
EXTENDS Integers, Sequences, FiniteSets, TLC

(***************************************************************************)
(* Program constants.  Where the two programs differ, the plain variant's  *)
(* constant carries the suffix _PLAIN.                                     *)
(***************************************************************************)
SCREEN_WIDTH == 128
MOVEMENT_SPEED == 4
GROUND_Y == 59
GRAVITY == 2
SMALL_JUMP_VELOCITY == -10
BIG_JUMP_VELOCITY == -20
BIG_JUMP_VELOCITY_PLAIN == -14
MAX_FALL_SPEED == 10
MAX_JUMP_HEIGHT == 60
DOUBLE_CLICK_MS == 900
DOUBLE_CLICK_MS_PLAIN == 300
TILE_WIDTH == 128
NUM_TILES == 3
TOTAL_MAP_WIDTH == TILE_WIDTH * NUM_TILES
CHAR_WIDTH == 10
CHAR_HEIGHT == 10
START_SCROLL_X == SCREEN_WIDTH \div 2
CHAR_START_X == SCREEN_WIDTH \div 4
CELL_SIZE == 10
GRID_ROWS == 6
GRID_COLS == 39
CELL_EMPTY == 0
CELL_BLOCK == 1
CELL_PILL == 2
\* The generation fractions 0.02, 0.005 and 0.02, in thousandths.
PERCENT_PILLS == 20
PERCENT_AIR_BLOCKS == 5
PERCENT_GROUND_BLOCKS == 20
\* rand() % 5: the rows an air block is drawn from.
AIR_ROWS == 5
\* A uint32_t difference that wrapped around (see U32Sub).
U32_WRAPPED == 2147483647
\* Score per pill.
PILL_SCORE == 10
\* The attempt budget of the pill loop is total_cells * 2.
ATTEMPT_FACTOR == 2

(***************************************************************************)
(* Bounds of the model.                                                    *)
(***************************************************************************)
\* The tick counter is read at multiples of ClockStep, up to MaxClock of them.
ClockStep == 300
MaxClock == 3
\* init_grid's rand() returns RandBase or the value after it.
RandBase == 42
\* The pixel coordinates get_cell_at is queried with reach QueryMargin
\* pixels beyond the grid's span on every side.
QueryMargin == 12

(***************************************************************************)
(* C arithmetic.                                                           *)
(***************************************************************************)
\* int / int for a positive divisor: truncation toward zero.
CDiv(a, b) == IF a >= 0 THEN a \div b ELSE -((-a) \div b)

\* uint32_t a - b for tick values a, b below 2^31 (TLC's integers end there):
\* a - b when a >= b; otherwise the difference wraps to 2^32 - (b - a), which
\* is above 2^31 and is given as U32_WRAPPED, larger than any value compared
\* with it.
U32Sub(a, b) == IF a >= b THEN a - b ELSE U32_WRAPPED

\* Variant: the product rounded to the nearest integer.
RoundFraction(total, permille) == (total * permille + 500) \div 1000

\* (int)(total_cells * fraction), the fraction given in thousandths.
TruncFraction(total, permille) == (total * permille) \div 1000

Rows == 0 .. (GRID_ROWS - 1)
Cols == 0 .. (GRID_COLS - 1)
EmptyGrid == [row \in Rows |-> [col \in Cols |-> CELL_EMPTY]]

(***************************************************************************)
(* Collision queries of the grid variant.                                  *)
(***************************************************************************)
get_cell_at(g, wx, wy) ==
    LET col == CDiv(wx, CELL_SIZE)
        row == CDiv(wy, CELL_SIZE)
    IN  IF row < 0 \/ row >= GRID_ROWS \/ col < 0 \/ col >= GRID_COLS
        THEN CELL_EMPTY
        ELSE g[row][col]

check_block_collision(g, wx, y) ==
    LET left == wx
        right == wx + CHAR_WIDTH - 1
        top == y
        bottom == y + CHAR_HEIGHT - 1
    IN  \/ get_cell_at(g, left, top) = CELL_BLOCK
        \/ get_cell_at(g, right, top) = CELL_BLOCK
        \/ get_cell_at(g, left, bottom) = CELL_BLOCK
        \/ get_cell_at(g, right, bottom) = CELL_BLOCK

check_ground_support(g, wx, y) ==
    LET feet_y == y + CHAR_HEIGHT
        left == wx
        right == wx + CHAR_WIDTH - 1
    IN  \/ get_cell_at(g, left, feet_y) = CELL_BLOCK
        \/ get_cell_at(g, right, feet_y) = CELL_BLOCK

\* The cells collect_pills visits: its two loops with their row < GRID_ROWS,
\* col < GRID_COLS conditions and the row >= 0, col >= 0 test of the body.
PillSpan(wx, y) ==
    LET col_start == CDiv(wx, CELL_SIZE)
        col_end == CDiv(wx + CHAR_WIDTH - 1, CELL_SIZE)
        row_start == CDiv(y, CELL_SIZE)
        row_end == CDiv(y + CHAR_HEIGHT - 1, CELL_SIZE)
    IN  {rc \in (row_start .. row_end) \X (col_start .. col_end) :
            /\ rc[1] < GRID_ROWS /\ rc[2] < GRID_COLS
            /\ rc[1] >= 0 /\ rc[2] >= 0}

\* grid[row][col] = CELL_EMPTY for every cell of the set.
RECURSIVE ClearCells(_, _)
ClearCells(g, cells) ==
    IF cells = {} THEN g
    ELSE LET rc == CHOOSE c \in cells : TRUE
         IN  ClearCells([g EXCEPT ![rc[1]][rc[2]] = CELL_EMPTY], cells \ {rc})

\* Variant: every filled cell in the span is cleared and scored, a Block too.
collect_pills_and_blocks(g, wx, y, sc, pills) ==
    LET hit == {rc \in PillSpan(wx, y) : g[rc[1]][rc[2]] # CELL_EMPTY}
    IN  [grid |-> ClearCells(g, hit),
         score |-> sc + PILL_SCORE * Cardinality(hit),
         pill_count |-> pills - Cardinality(hit)]

\* Variant: pill_count counts the collected pills up.
collect_pills_counting_up(g, wx, y, sc, pills) ==
    LET hit == {rc \in PillSpan(wx, y) : g[rc[1]][rc[2]] = CELL_PILL}
    IN  [grid |-> ClearCells(g, hit),
         score |-> sc + PILL_SCORE * Cardinality(hit),
         pill_count |-> pills + Cardinality(hit)]

\* Variant: a collected pill stays in its cell.
collect_pills_leaving_pill(g, wx, y, sc, pills) ==
    LET hit == {rc \in PillSpan(wx, y) : g[rc[1]][rc[2]] = CELL_PILL}
    IN  [grid |-> g,
         score |-> sc + PILL_SCORE * Cardinality(hit),
         pill_count |-> pills - Cardinality(hit)]

\* collect_pills: every pill in the span becomes empty and scores once.
collect_pills(g, wx, y, sc, pills) ==
    LET hit == {rc \in PillSpan(wx, y) : g[rc[1]][rc[2]] = CELL_PILL}
    IN  [grid |-> ClearCells(g, hit),
         score |-> sc + PILL_SCORE * Cardinality(hit),
         pill_count |-> pills - Cardinality(hit)]

(***************************************************************************)
(* Grid generation: init_grid, as a function of the values rand() returns. *)
(* A generation state holds init_grid's position (the loop it is in, i,    *)
(* pills_placed, attempts) and the fields it writes.  One step is one       *)
(* iteration of one of its three loops.                                     *)
(***************************************************************************)
total_cells == GRID_ROWS * GRID_COLS
num_pills == TruncFraction(total_cells, PERCENT_PILLS)
num_air_blocks == TruncFraction(total_cells, PERCENT_AIR_BLOCKS)
num_ground_blocks == TruncFraction(total_cells, PERCENT_GROUND_BLOCKS)
max_attempts == total_cells * ATTEMPT_FACTOR

SetCell(g, row, col, kind) == [g EXCEPT ![row][col] = kind]

\* The loop conditions of lines 701, 711 and 726: a loop whose condition is
\* false is left for the next one.
LoopExit(st) ==
    LET a == IF st.phase = "air" /\ ~(st.i < num_air_blocks)
             THEN [st EXCEPT !.phase = "ground", !.i = 0] ELSE st
        b == IF a.phase = "ground" /\ ~(a.i < num_ground_blocks)
             THEN [a EXCEPT !.phase = "pills", !.i = 0] ELSE a
    IN  IF b.phase = "pills"
           /\ ~(b.pills_placed < num_pills /\ b.attempts < max_attempts)
        THEN [b EXCEPT !.phase = "done"] ELSE b

\* State after the clearing loop and the counter resets (lines 685-698).
GenStart ==
    LoopExit([phase |-> "air", i |-> 0, pills_placed |-> 0, attempts |-> 0,
              grid |-> EmptyGrid, score |-> 0, block_count |-> 0,
              pill_count |-> 0])

\* Lines 701-708: one air block draw.
init_grid_air(st, r1, r2) ==
    LET row == r1 % AIR_ROWS
        col == r2 % GRID_COLS
        free == st.grid[row][col] = CELL_EMPTY
    IN  LoopExit([st EXCEPT
            !.i = st.i + 1,
            !.grid = IF free THEN SetCell(st.grid, row, col, CELL_BLOCK) ELSE @,
            !.block_count = IF free THEN @ + 1 ELSE @])

\* Lines 711-721: one ground block draw, stacked on the lowest empty cell of
\* the column; no block when the column is full.
init_grid_ground(st, r1) ==
    LET col == r1 % GRID_COLS
        empties == {row \in Rows : st.grid[row][col] = CELL_EMPTY}
        low == CHOOSE row \in empties : \A o \in empties : o <= row
    IN  LoopExit([st EXCEPT
            !.i = st.i + 1,
            !.grid = IF empties # {} THEN SetCell(st.grid, low, col, CELL_BLOCK)
                     ELSE @,
            !.block_count = IF empties # {} THEN @ + 1 ELSE @])

\* Variant: an attempt on an occupied cell is not counted.
init_grid_pill_uncounted_miss(st, r1, r2) ==
    LET row == r1 % GRID_ROWS
        col == r2 % GRID_COLS
        free == st.grid[row][col] = CELL_EMPTY
    IN  LoopExit([st EXCEPT
            !.attempts = IF free THEN @ + 1 ELSE @,
            !.grid = IF free THEN SetCell(st.grid, row, col, CELL_PILL) ELSE @,
            !.pill_count = IF free THEN @ + 1 ELSE @,
            !.pills_placed = IF free THEN @ + 1 ELSE @])

\* Variant: pill_count counts every attempt, also one on an occupied cell.
init_grid_pill_counting_attempts(st, r1, r2) ==
    LET row == r1 % GRID_ROWS
        col == r2 % GRID_COLS
        free == st.grid[row][col] = CELL_EMPTY
    IN  LoopExit([st EXCEPT
            !.attempts = st.attempts + 1,
            !.grid = IF free THEN SetCell(st.grid, row, col, CELL_PILL) ELSE @,
            !.pill_count = @ + 1,
            !.pills_placed = IF free THEN @ + 1 ELSE @])

\* Lines 726-735: one pill attempt.
init_grid_pill(st, r1, r2) ==
    LET row == r1 % GRID_ROWS
        col == r2 % GRID_COLS
        free == st.grid[row][col] = CELL_EMPTY
    IN  LoopExit([st EXCEPT
            !.attempts = st.attempts + 1,
            !.grid = IF free THEN SetCell(st.grid, row, col, CELL_PILL) ELSE @,
            !.pill_count = IF free THEN @ + 1 ELSE @,
            !.pills_placed = IF free THEN @ + 1 ELSE @])

\* One loop iteration of init_grid, whichever loop is running; r1 and r2 are
\* the rand() results (the ground loop draws one only).
init_grid_step(st, r1, r2) ==
    CASE st.phase = "air" -> init_grid_air(st, r1, r2)
      [] st.phase = "ground" -> init_grid_ground(st, r1)
      [] st.phase = "pills" -> init_grid_pill(st, r1, r2)
      [] OTHER -> st

\* init_grid run to its end on a given sequence of rand() results, one pair
\* per loop iteration.
RECURSIVE init_grid(_, _)
init_grid(st, draws) ==
    IF st.phase = "done" \/ draws = <<>>
    THEN st
    ELSE init_grid(init_grid_step(st, Head(draws)[1], Head(draws)[2]), Tail(draws))

(***************************************************************************)
(* Physics: update_physics.  The result holds the fields the function      *)
(* writes and vibro, the number of trigger_vibration calls it made.        *)
(***************************************************************************)
\* Variant: nothing pulls the character down.
apply_gravity_none(vel, og) == vel

\* Lines 962-967 (part_000: 122-127): gravity while in the air.
apply_gravity(vel, og) ==
    IF ~og
    THEN (IF vel + GRAVITY > MAX_FALL_SPEED THEN MAX_FALL_SPEED ELSE vel + GRAVITY)
    ELSE vel

\* Variant: the character is put at its feet row, CHAR_HEIGHT too low.
landing_y_at_feet(new_y) ==
    LET feet_y == new_y + CHAR_HEIGHT
        block_row == CDiv(feet_y, CELL_SIZE)
    IN  block_row * CELL_SIZE

\* The row of line 985-986 the character is put on when it lands on a Block.
landing_y(new_y) ==
    LET feet_y == new_y + CHAR_HEIGHT
        block_row == CDiv(feet_y, CELL_SIZE)
    IN  block_row * CELL_SIZE - CHAR_HEIGHT

\* Variant: the height of a jump is not limited.
update_physics_without_cap(g, wx, y, vel, og, sc, pills) ==
    LET v2 == apply_gravity(vel, og)
        new_y == y + v2
        ground_pos == GROUND_Y - CHAR_HEIGHT
        keep == [grid |-> g, score |-> sc, pill_count |-> pills]
    IN  IF v2 > 0 /\ check_ground_support(g, wx, new_y - 1)
        THEN keep @@ [y_pos |-> landing_y(new_y), y_velocity |-> 0,
                      on_ground |-> TRUE, vibro |-> 0]
        ELSE IF v2 < 0 /\ check_block_collision(g, wx, new_y)
        THEN keep @@ [y_pos |-> y, y_velocity |-> 0, on_ground |-> og,
                      vibro |-> 1]
        ELSE LET y2 == IF new_y >= ground_pos THEN ground_pos ELSE new_y
                 v3 == IF new_y >= ground_pos THEN 0 ELSE v2
             IN  collect_pills(g, wx, y2, sc, pills)
                   @@ [y_pos |-> y2, y_velocity |-> v3,
                       on_ground |-> (new_y >= ground_pos), vibro |-> 0]

\* Variant: a hit on a Block above stops the move and keeps the velocity.
update_physics_keeps_velocity(g, wx, y, vel, og, sc, pills) ==
    LET v1 == apply_gravity(vel, og)
        max_height_y == GROUND_Y - CHAR_HEIGHT - MAX_JUMP_HEIGHT
        capped == y + v1 < max_height_y
        new_y == IF capped THEN max_height_y ELSE y + v1
        v2 == IF capped THEN 0 ELSE v1
        ground_pos == GROUND_Y - CHAR_HEIGHT
        keep == [grid |-> g, score |-> sc, pill_count |-> pills]
    IN  IF v2 > 0 /\ check_ground_support(g, wx, new_y - 1)
        THEN keep @@ [y_pos |-> landing_y(new_y), y_velocity |-> 0,
                      on_ground |-> TRUE, vibro |-> 0]
        ELSE IF v2 < 0 /\ check_block_collision(g, wx, new_y)
        THEN keep @@ [y_pos |-> y, y_velocity |-> v2, on_ground |-> og,
                      vibro |-> 1]
        ELSE LET y2 == IF new_y >= ground_pos THEN ground_pos ELSE new_y
                 v3 == IF new_y >= ground_pos THEN 0 ELSE v2
             IN  collect_pills(g, wx, y2, sc, pills)
                   @@ [y_pos |-> y2, y_velocity |-> v3,
                       on_ground |-> (new_y >= ground_pos), vibro |-> 0]

\* The grid variant, src/bread.c lines 960-1014.
update_physics(g, wx, y, vel, og, sc, pills) ==
    LET v1 == apply_gravity(vel, og)
        max_height_y == GROUND_Y - CHAR_HEIGHT - MAX_JUMP_HEIGHT
        capped == y + v1 < max_height_y
        new_y == IF capped THEN max_height_y ELSE y + v1
        v2 == IF capped THEN 0 ELSE v1
        ground_pos == GROUND_Y - CHAR_HEIGHT
        keep == [grid |-> g, score |-> sc, pill_count |-> pills]
    IN  IF v2 > 0 /\ check_ground_support(g, wx, new_y - 1)
        THEN \* land on the block and return
             keep @@ [y_pos |-> landing_y(new_y), y_velocity |-> 0,
                      on_ground |-> TRUE, vibro |-> 0]
        ELSE IF v2 < 0 /\ check_block_collision(g, wx, new_y)
        THEN \* hit a block above and return
             keep @@ [y_pos |-> y, y_velocity |-> 0, on_ground |-> og,
                      vibro |-> 1]
        ELSE LET y2 == IF new_y >= ground_pos THEN ground_pos ELSE new_y
                 v3 == IF new_y >= ground_pos THEN 0 ELSE v2
             IN  collect_pills(g, wx, y2, sc, pills)
                   @@ [y_pos |-> y2, y_velocity |-> v3,
                       on_ground |-> (new_y >= ground_pos), vibro |-> 0]

\* The plain variant, src/unnamed/part_000 lines 120-138.
update_physics_plain(y, vel, og) ==
    LET v1 == apply_gravity(vel, og)
        new_y == y + v1
        ground_pos == GROUND_Y - CHAR_HEIGHT
    IN  IF new_y >= ground_pos
        THEN [y_pos |-> ground_pos, y_velocity |-> 0, on_ground |-> TRUE]
        ELSE [y_pos |-> new_y, y_velocity |-> v1, on_ground |-> FALSE]

(***************************************************************************)
(* Jump: handle_jump.  current_time is what furi_get_tick() returns.       *)
(***************************************************************************)
\* Variant: a press exactly one window after the last one still counts.
is_double_click_inclusive(current_time, ljt, window) ==
    U32Sub(current_time, ljt) <= window

is_double_click(current_time, ljt, window) ==
    U32Sub(current_time, ljt) < window

\* Variant: the jump leaves on_ground as it is.
handle_jump_stays_grounded(og, vel, ljt, current_time, window, big) ==
    IF og
    THEN [y_velocity |-> IF is_double_click(current_time, ljt, window)
                         THEN big ELSE SMALL_JUMP_VELOCITY,
          on_ground |-> og,
          last_jump_time |-> current_time]
    ELSE [y_velocity |-> vel, on_ground |-> og, last_jump_time |-> ljt]

\* Variant: a press in the air is remembered as the last jump.
handle_jump_stamps_in_air(og, vel, ljt, current_time, window, big) ==
    IF og
    THEN [y_velocity |-> IF is_double_click(current_time, ljt, window)
                         THEN big ELSE SMALL_JUMP_VELOCITY,
          on_ground |-> FALSE,
          last_jump_time |-> current_time]
    ELSE [y_velocity |-> vel, on_ground |-> og, last_jump_time |-> current_time]

handle_jump(og, vel, ljt, current_time, window, big) ==
    IF og
    THEN [y_velocity |-> IF is_double_click(current_time, ljt, window)
                         THEN big ELSE SMALL_JUMP_VELOCITY,
          last_jump_time |-> current_time,
          on_ground |-> FALSE]
    ELSE [y_velocity |-> vel, last_jump_time |-> ljt, on_ground |-> og]

(***************************************************************************)
(* Horizontal movement: update_game.  The result holds world_x, screen_x,  *)
(* camera_x and vibro, the number of vibration signals emitted.            *)
(***************************************************************************)
\* Variant: the signal fires whenever the character is at a world edge.
boundary_vibro_at_rest(old_world_x, wx) ==
    IF wx = 0 \/ wx = TOTAL_MAP_WIDTH - CHAR_WIDTH THEN 1 ELSE 0

\* Variant: the signal fires on every move.
boundary_vibro_any_move(old_world_x, wx) ==
    IF old_world_x # wx THEN 1 ELSE 0

\* Lines 1134-1138 (part_000: 225-229): the boundary vibration.
boundary_vibro(old_world_x, wx) ==
    IF old_world_x # wx /\ (wx = 0 \/ wx = TOTAL_MAP_WIDTH - CHAR_WIDTH)
    THEN 1 ELSE 0

\* Variant: no clamp of screen_x at the right screen edge.
scroll_right_unclamped(sx, cx) ==
    IF sx >= START_SCROLL_X /\ cx < TOTAL_MAP_WIDTH - SCREEN_WIDTH
    THEN [screen_x |-> sx, camera_x |-> cx + MOVEMENT_SPEED]
    ELSE [screen_x |-> sx + MOVEMENT_SPEED, camera_x |-> cx]

\* Variant: the camera starts to scroll one step late.
scroll_right_late(sx, cx) ==
    IF sx > START_SCROLL_X /\ cx < TOTAL_MAP_WIDTH - SCREEN_WIDTH
    THEN [screen_x |-> sx, camera_x |-> cx + MOVEMENT_SPEED]
    ELSE LET new_screen_x == sx + MOVEMENT_SPEED
         IN  [screen_x |-> IF new_screen_x > SCREEN_WIDTH - CHAR_WIDTH
                           THEN SCREEN_WIDTH - CHAR_WIDTH ELSE new_screen_x,
              camera_x |-> cx]

\* Lines 1051-1074: scroll the camera or move the character, going right.
scroll_right(sx, cx) ==
    IF sx >= START_SCROLL_X /\ cx < TOTAL_MAP_WIDTH - SCREEN_WIDTH
    THEN LET new_camera_x == cx + MOVEMENT_SPEED
             overflow == new_camera_x - (TOTAL_MAP_WIDTH - SCREEN_WIDTH)
         IN  IF new_camera_x > TOTAL_MAP_WIDTH - SCREEN_WIDTH
             THEN [screen_x |-> sx + overflow,
                   camera_x |-> TOTAL_MAP_WIDTH - SCREEN_WIDTH]
             ELSE [screen_x |-> sx, camera_x |-> new_camera_x]
    ELSE LET new_screen_x == sx + MOVEMENT_SPEED
         IN  [screen_x |-> IF new_screen_x > SCREEN_WIDTH - CHAR_WIDTH
                           THEN SCREEN_WIDTH - CHAR_WIDTH ELSE new_screen_x,
              camera_x |-> cx]

\* Variant: no clamp of screen_x at the left screen edge.
scroll_left_unclamped(sx, cx) ==
    IF sx <= START_SCROLL_X /\ cx > 0
    THEN [screen_x |-> sx, camera_x |-> cx - MOVEMENT_SPEED]
    ELSE [screen_x |-> sx - MOVEMENT_SPEED, camera_x |-> cx]

\* Lines 1099-1121: the same, going left.
scroll_left(sx, cx) ==
    IF sx <= START_SCROLL_X /\ cx > 0
    THEN LET new_camera_x == cx - MOVEMENT_SPEED
             overflow == -new_camera_x
         IN  IF new_camera_x < 0
             THEN [screen_x |-> sx - overflow, camera_x |-> 0]
             ELSE [screen_x |-> sx, camera_x |-> new_camera_x]
    ELSE LET new_screen_x == sx - MOVEMENT_SPEED
         IN  [screen_x |-> IF new_screen_x < 0 THEN 0 ELSE new_screen_x,
              camera_x |-> cx]


\* Variant: facing_right is written once the move has passed the Block test.
update_game_facing_after_test(g, key, wx, y, fr) ==
    IF key = "Right"
    THEN (IF wx < TOTAL_MAP_WIDTH - CHAR_WIDTH
             /\ check_block_collision(g, wx + MOVEMENT_SPEED, y)
          THEN fr ELSE TRUE)
    ELSE IF key = "Left"
    THEN (IF wx > 0 /\ check_block_collision(g, wx - MOVEMENT_SPEED, y)
          THEN fr ELSE FALSE)
    ELSE fr

\* facing_right as update_game leaves it (lines 1038 and 1086; part_000:
\* the same statements): written first in each branch, before any test.
update_game_facing(g, key, wx, y, fr) ==
    IF key = "Right" THEN TRUE
    ELSE IF key = "Left" THEN FALSE
    ELSE fr

\* Variant: an input whose step would pass a world boundary does nothing.
update_game_whole_steps(g, key, wx, sx, cx, y) ==
    LET stay == [world_x |-> wx, screen_x |-> sx, camera_x |-> cx]
    IN  IF key = "Right" /\ wx + MOVEMENT_SPEED <= TOTAL_MAP_WIDTH - CHAR_WIDTH
        THEN IF check_block_collision(g, wx + MOVEMENT_SPEED, y)
             THEN stay @@ [vibro |-> 1]
             ELSE scroll_right(sx, cx)
                    @@ [world_x |-> wx + MOVEMENT_SPEED,
                        vibro |-> boundary_vibro(wx, wx + MOVEMENT_SPEED)]
        ELSE IF key = "Left" /\ wx - MOVEMENT_SPEED >= 0
        THEN IF check_block_collision(g, wx - MOVEMENT_SPEED, y)
             THEN stay @@ [vibro |-> 1]
             ELSE scroll_left(sx, cx)
                    @@ [world_x |-> wx - MOVEMENT_SPEED,
                        vibro |-> boundary_vibro(wx, wx - MOVEMENT_SPEED)]
        ELSE stay @@ [vibro |-> 0]

\* The grid variant, src/bread.c lines 1031-1139.
update_game(g, key, wx, sx, cx, y) ==
    LET stay == [world_x |-> wx, screen_x |-> sx, camera_x |-> cx]
    IN  IF key = "Right" /\ wx < TOTAL_MAP_WIDTH - CHAR_WIDTH
        THEN LET new_world_x == wx + MOVEMENT_SPEED
                 clamped == IF new_world_x > TOTAL_MAP_WIDTH - CHAR_WIDTH
                            THEN TOTAL_MAP_WIDTH - CHAR_WIDTH ELSE new_world_x
             IN  IF check_block_collision(g, new_world_x, y)
                 THEN stay @@ [vibro |-> 1]
                 ELSE scroll_right(sx, cx)
                        @@ [world_x |-> clamped,
                            vibro |-> boundary_vibro(wx, clamped)]
        ELSE IF key = "Left" /\ wx > 0
        THEN LET new_world_x == wx - MOVEMENT_SPEED
                 clamped == IF new_world_x < 0 THEN 0 ELSE new_world_x
             IN  IF check_block_collision(g, new_world_x, y)
                 THEN stay @@ [vibro |-> 1]
                 ELSE scroll_left(sx, cx)
                        @@ [world_x |-> clamped,
                            vibro |-> boundary_vibro(wx, clamped)]
        ELSE stay @@ [vibro |-> boundary_vibro(wx, wx)]

\* The plain variant, src/unnamed/part_000 lines 155-231: the same steps
\* written as updates in place, with no block test.
update_game_plain(key, wx, sx, cx) ==
    LET stay == [world_x |-> wx, screen_x |-> sx, camera_x |-> cx]
    IN  IF key = "Right" /\ wx < TOTAL_MAP_WIDTH - CHAR_WIDTH
        THEN LET moved == wx + MOVEMENT_SPEED
                 clamped == IF moved > TOTAL_MAP_WIDTH - CHAR_WIDTH
                            THEN TOTAL_MAP_WIDTH - CHAR_WIDTH ELSE moved
             IN  scroll_right(sx, cx)
                   @@ [world_x |-> clamped, vibro |-> boundary_vibro(wx, clamped)]
        ELSE IF key = "Left" /\ wx > 0
        THEN LET moved == wx - MOVEMENT_SPEED
                 clamped == IF moved < 0 THEN 0 ELSE moved
             IN  scroll_left(sx, cx)
                   @@ [world_x |-> clamped, vibro |-> boundary_vibro(wx, clamped)]
        ELSE stay @@ [vibro |-> boundary_vibro(wx, wx)]

(***************************************************************************)
(* The press-duration programs: the first program of bread.c (lines 1-604, *)
(* with the music thread) and part_001 (without it).  Their handlers are   *)
(* the same but for the character's width.                                 *)
(***************************************************************************)
MAP_WIDTH == 748
PANIS_WIDTH == 16
PANIS_WIDTH_PART == 10
SCREEN_HEIGHT == 64
GROUND_Y_FEET == SCREEN_HEIGHT - 8
SCROLL_START_X == 64
MOVE_SPEED == 2
JUMP_VELOCITY_SHORT == 8
JUMP_VELOCITY_LONG == 12
melody_length == 12

\* x, y and velocity_y are floats.  x only takes whole values; y and
\* velocity_y are kept in units of 1/FRACTION pixel, which holds every
\* value the halving in handle_jump produces (HalvingExact below).
FRACTION == 16
Px(n) == n * FRACTION

\* game_state_init.
game_state_init ==
    [x |-> 10, y |-> Px(GROUND_Y_FEET), velocity_y |-> 0, map_offset_x |-> 0,
     direction |-> "Right", jump_state |-> "None", jump_button_held |-> FALSE,
     jump_start_tick |-> 0, music_enabled |-> TRUE]

\* A game_update that moves the character and leaves its velocity alone.
game_update_without_gravity(s) ==
    IF s.jump_state # "None"
    THEN LET y == s.y + s.velocity_y
         IN  IF y >= Px(GROUND_Y_FEET)
             THEN [s EXCEPT !.y = Px(GROUND_Y_FEET), !.velocity_y = 0,
                            !.jump_state = "None"]
             ELSE [s EXCEPT !.y = y]
    ELSE s

\* game_update: one frame of physics.
game_update(s) ==
    IF s.jump_state # "None"
    THEN LET vel == s.velocity_y + Px(GRAVITY)
             y == s.y + vel
         IN  IF y >= Px(GROUND_Y_FEET)
             THEN [s EXCEPT !.y = Px(GROUND_Y_FEET), !.velocity_y = 0,
                            !.jump_state = "None"]
             ELSE [s EXCEPT !.y = y, !.velocity_y = vel]
    ELSE s

\* handle_movement for a character of width panis_width.
handle_movement(s, key, panis_width) ==
    IF key = "Left"
    THEN LET t == [s EXCEPT !.direction = "Left"]
         IN  IF s.x <= 0 /\ s.map_offset_x > 0
             THEN LET off == s.map_offset_x - MOVE_SPEED
                  IN  [t EXCEPT !.map_offset_x = IF off < 0 THEN 0 ELSE off]
             ELSE IF s.x > 0
             THEN LET nx == s.x - MOVE_SPEED
                  IN  [t EXCEPT !.x = IF nx < 0 THEN 0 ELSE nx]
             ELSE t
    ELSE IF key = "Right"
    THEN LET t == [s EXCEPT !.direction = "Right"]
             max_scroll == MAP_WIDTH - SCREEN_WIDTH
         IN  IF s.x < SCROLL_START_X /\ s.map_offset_x = 0
             THEN LET nx == s.x + MOVE_SPEED
                  IN  [t EXCEPT !.x = IF nx > SCROLL_START_X
                                      THEN SCROLL_START_X ELSE nx]
             ELSE IF s.x >= SCROLL_START_X /\ s.map_offset_x < max_scroll
             THEN LET off == s.map_offset_x + MOVE_SPEED
                  IN  [t EXCEPT !.map_offset_x = IF off > max_scroll
                                                 THEN max_scroll ELSE off]
             ELSE IF s.map_offset_x >= max_scroll
                     /\ s.x < SCREEN_WIDTH - panis_width
             THEN LET nx == s.x + MOVE_SPEED
                  IN  [t EXCEPT !.x = IF nx > SCREEN_WIDTH - panis_width
                                      THEN SCREEN_WIDTH - panis_width ELSE nx]
             ELSE t
    ELSE s

\* A handle_jump whose Long starts a jump of the short velocity.
handle_jump_type_long_as_short(s, type, current_tick) ==
    IF type \in {"Press", "Long"} /\ s.jump_state = "None"
    THEN [s EXCEPT !.jump_state = "Rising",
                   !.velocity_y = -Px(JUMP_VELOCITY_SHORT),
                   !.jump_button_held = TRUE,
                   !.jump_start_tick = current_tick]
    ELSE s

\* handle_jump(state, type) of the press-duration programs, the tick counter
\* at current_tick.
handle_jump_type(s, type, current_tick) ==
    IF type = "Press" /\ s.jump_state = "None"
    THEN [s EXCEPT !.jump_state = "Rising",
                   !.velocity_y = -Px(JUMP_VELOCITY_SHORT),
                   !.jump_button_held = TRUE,
                   !.jump_start_tick = current_tick]
    ELSE IF type = "Long" /\ s.jump_state = "None"
    THEN [s EXCEPT !.jump_state = "Rising",
                   !.velocity_y = -Px(JUMP_VELOCITY_LONG),
                   !.jump_button_held = TRUE,
                   !.jump_start_tick = current_tick]
    ELSE IF type = "Release"
    THEN [s EXCEPT !.jump_button_held = FALSE,
                   !.velocity_y = IF s.jump_state = "Rising" /\ s.velocity_y < 0
                                  THEN CDiv(s.velocity_y, 2) ELSE s.velocity_y]
    ELSE s

\* The thread of a program that starts none, and music_player_thread as
\* furi_thread_start leaves it.
NoThread == [pc |-> "none", note_index |-> 0, speaker |-> FALSE]
ThreadStarted == [pc |-> "check", note_index |-> 0, speaker |-> FALSE]

(***************************************************************************)
(* The program state.                                                      *)
(*   variant       "grid" or "plain": the program that runs                *)
(*   pc            where the program is: "air", "ground", "pills" (the     *)
(*                 loops of init_grid), "input" (furi_message_queue_get at *)
(*                 the top of the main loop), "physics" (before            *)
(*                 update_physics), "exit" (the loop has ended); "query"   *)
(*                 and "queried" before and after a get_cell_at call       *)
(*   grid .. pill_count, world_x .. last_jump_time, running:               *)
(*                 the fields of GameState                                 *)
(*   gen           init_grid's locals i, pills_placed, attempts            *)
(*   tick          the system tick counter, furi_get_tick()                *)
(*   event         the InputEvent the current iteration read, or NoEvent   *)
(*   vibro         the trigger_vibration calls of the last step            *)
(*   query         arguments and result of a get_cell_at call              *)
(*   jumped        history: handle_jump has accepted a press this session  *)
(*                 (press-duration programs: and has handled no Release    *)
(*                 since)                                                  *)
(*   state         the GameState of the press-duration programs            *)
(*   music         music_player_thread: where it is, and its note_index    *)
(* grid_view_enabled, which only the draw callback reads, is left out.     *)
(***************************************************************************)
VARIABLES variant, pc, grid, score, block_count, pill_count, gen,
          world_x, screen_x, camera_x, facing_right, running,
          y_pos, y_velocity, on_ground, last_jump_time,
          tick, event, vibro, query, jumped, state, music

gridVars == <<grid, score, block_count, pill_count>>
xVars == <<world_x, screen_x, camera_x, facing_right>>
yVars == <<y_pos, y_velocity, on_ground>>
vars == <<variant, pc, grid, score, block_count, pill_count, gen,
          world_x, screen_x, camera_x, facing_right, running,
          y_pos, y_velocity, on_ground, last_jump_time,
          tick, event, vibro, query, jumped, state, music>>

NoEvent == [key |-> "None", type |-> "None"]
Ev(k, t) == [key |-> k, type |-> t]
Keys == {"Up", "Down", "Left", "Right", "Ok", "Back"}
Types == {"Press", "Release", "Short", "Long", "Repeat"}
AllEvents == {Ev(k, t) : k \in Keys, t \in Types}
NoQuery == [x |-> 0, y |-> 0, cell |-> CELL_EMPTY]

\* The values rand() returns, and the pixel coordinates of a query.
RandValues == {RandBase, RandBase + 1}
QueryXs == (-QueryMargin) .. (GRID_COLS * CELL_SIZE - 1 + QueryMargin)
QueryYs == (-QueryMargin) .. (GRID_ROWS * CELL_SIZE - 1 + QueryMargin)

\* The values the tick counter is read at, and the two ends of them.
ClockValues == {k * ClockStep : k \in 0 .. MaxClock}
CoarseClock == {0, MaxClock * ClockStep}

\* The double-press window and the big jump's velocity of each program.
jump_window(v) == IF v = "grid" THEN DOUBLE_CLICK_MS ELSE DOUBLE_CLICK_MS_PLAIN
jump_big(v) == IF v = "grid" THEN BIG_JUMP_VELOCITY ELSE BIG_JUMP_VELOCITY_PLAIN

\* Where the program is when init_grid is in generation state st: in one of
\* its loops, or, once it has returned, at the top of the main loop.
PcOf(st) == IF st.phase = "done" THEN "input" ELSE st.phase

\* panis_main's assignments before the main loop (lines 1149-1163; part_000:
\* 241-251) with init_grid in generation state st and the tick counter at t.
GameStart(v, st, t) ==
    /\ variant = v
    /\ pc = PcOf(st)
    /\ grid = st.grid
    /\ score = st.score
    /\ block_count = st.block_count
    /\ pill_count = st.pill_count
    /\ gen = [i |-> st.i, pills_placed |-> st.pills_placed,
               attempts |-> st.attempts]
    /\ world_x = CHAR_START_X
    /\ screen_x = CHAR_START_X
    /\ camera_x = 0
    /\ facing_right = TRUE
    /\ running = TRUE
    /\ y_pos = GROUND_Y - CHAR_HEIGHT
    /\ y_velocity = 0
    /\ on_ground = TRUE
    /\ last_jump_time = 0
    /\ tick = t
    /\ event = NoEvent
    /\ vibro = 0
    /\ query = NoQuery
    /\ jumped = FALSE
    /\ state = game_state_init
    /\ music = NoThread

\* The plain variant has no grid: its grid fields stay as GenStart has them.
NoGridState == [GenStart EXCEPT !.phase = "done"]

(***************************************************************************)
(* The main loop (lines 1176-1213; part_000: 264-292).  One iteration is   *)
(* a step at "input", which waits for the queue and handles the event it   *)
(* got, if any, and a step at "physics".  While the loop waits the tick    *)
(* counter moves on to any later value of `clock`.                         *)
(***************************************************************************)
Wait(clock) ==
    /\ variant \in {"grid", "plain"}
    /\ pc = "input"
    /\ running
    /\ tick' \in {t \in clock : t >= tick}
    /\ UNCHANGED <<variant, gen, query, state, music>>

\* furi_message_queue_get timed out: no event.
QueueTimeout(clock) ==
    /\ Wait(clock)
    /\ event' = NoEvent
    /\ vibro' = 0
    /\ pc' = "physics"
    /\ UNCHANGED <<gridVars, xVars, yVars, running, last_jump_time, jumped>>

\* Back pressed: running = false; continue.
BackPress(clock) ==
    /\ Wait(clock)
    /\ event' = Ev("Back", "Press")
    /\ vibro' = 0
    /\ running' = FALSE
    /\ pc' = "exit"
    /\ UNCHANGED <<gridVars, xVars, yVars, last_jump_time, jumped>>

\* Up pressed: handle_jump.
UpPress(clock) ==
    /\ Wait(clock)
    /\ event' = Ev("Up", "Press")
    /\ vibro' = 0
    /\ \E r \in {handle_jump(on_ground, y_velocity, last_jump_time, tick',
                             jump_window(variant), jump_big(variant))} :
           /\ y_velocity' = r.y_velocity
           /\ on_ground' = r.on_ground
           /\ last_jump_time' = r.last_jump_time
    /\ jumped' = (jumped \/ on_ground)
    /\ pc' = "physics"
    /\ UNCHANGED <<gridVars, xVars, y_pos, running>>

\* Variant: the input also collects the pills at the position it leads to.
MoveKey_collecting(clock, keys, types) ==
    /\ Wait(clock)
    /\ \E k \in keys \cap {"Left", "Right"}, t \in types \cap {"Press", "Repeat"} :
         /\ event' = Ev(k, t)
         /\ facing_right' = update_game_facing(grid, k, world_x, y_pos,
                                               facing_right)
         /\ \E r \in {IF variant = "grid"
                      THEN update_game(grid, k, world_x, screen_x, camera_x, y_pos)
                      ELSE update_game_plain(k, world_x, screen_x, camera_x)} :
                /\ world_x' = r.world_x
                /\ screen_x' = r.screen_x
                /\ camera_x' = r.camera_x
                /\ vibro' = r.vibro
                /\ \E c \in {collect_pills(grid, r.world_x, y_pos, score,
                                           pill_count)} :
                       /\ grid' = c.grid
                       /\ score' = c.score
                       /\ pill_count' = c.pill_count
    /\ pc' = "physics"
    /\ UNCHANGED <<block_count, yVars, running, last_jump_time, jumped>>

\* Left or Right, pressed or repeated: update_game.
MoveKey(clock, keys, types) ==
    /\ Wait(clock)
    /\ \E k \in keys \cap {"Left", "Right"}, t \in types \cap {"Press", "Repeat"} :
         /\ event' = Ev(k, t)
         /\ facing_right' = update_game_facing(grid, k, world_x, y_pos,
                                               facing_right)
         /\ \E r \in {IF variant = "grid"
                      THEN update_game(grid, k, world_x, screen_x, camera_x, y_pos)
                      ELSE update_game_plain(k, world_x, screen_x, camera_x)} :
                /\ world_x' = r.world_x
                /\ screen_x' = r.screen_x
                /\ camera_x' = r.camera_x
                /\ vibro' = r.vibro
    /\ pc' = "physics"
    /\ UNCHANGED <<gridVars, yVars, running, last_jump_time, jumped>>

\* The events the loop reads and does nothing with that the model keeps.
IgnoredEvents ==
    AllEvents \ ({Ev("Back", "Press"), Ev("Up", "Press")}
                 \cup {Ev(k, t) : k \in {"Left", "Right"}, t \in {"Press", "Repeat"}})

\* A few of them: a key the loop has no handler for, and releases.
SomeIgnoredEvents ==
    {Ev("Ok", "Press"), Ev("Up", "Release"), Ev("Right", "Release")}

OtherEvent(clock, events) ==
    /\ Wait(clock)
    /\ event' \in events \cap IgnoredEvents
    /\ vibro' = 0
    /\ pc' = "physics"
    /\ UNCHANGED <<gridVars, xVars, yVars, running, last_jump_time, jumped>>

\* update_physics, then view_port_update and back to the top of the loop.
Physics ==
    /\ variant \in {"grid", "plain"}
    /\ pc = "physics"
    /\ IF variant = "grid"
       THEN \E r \in {update_physics(grid, world_x, y_pos, y_velocity, on_ground,
                                      score, pill_count)} :
                /\ y_pos' = r.y_pos
                /\ y_velocity' = r.y_velocity
                /\ on_ground' = r.on_ground
                /\ grid' = r.grid
                /\ score' = r.score
                /\ pill_count' = r.pill_count
                /\ vibro' = r.vibro
       ELSE \E r \in {update_physics_plain(y_pos, y_velocity, on_ground)} :
                /\ y_pos' = r.y_pos
                /\ y_velocity' = r.y_velocity
                /\ on_ground' = r.on_ground
                /\ vibro' = 0
                /\ UNCHANGED <<grid, score, pill_count>>
    /\ pc' = "input"
    /\ event' = NoEvent
    /\ UNCHANGED <<variant, block_count, gen, xVars, running, last_jump_time,
                   tick, query, jumped, state, music>>

(***************************************************************************)
(* Specification of a game session.  The grid is one init_grid produces:   *)
(* PlayDraws is the sequence of rand() results it is generated from.       *)
(***************************************************************************)
PlayDraws ==
    << <<2, 4>>,
       <<6, 0>>, <<38, 0>>, <<38, 0>>, <<38, 0>>,
       <<4, 3>>, <<4, 4>>, <<5, 3>>, <<4, 7>> >>

PlayGrid == init_grid(GenStart, PlayDraws)

Init ==
    \E t \in CoarseClock :
        \/ GameStart("grid", PlayGrid, t)
        \/ GameStart("plain", NoGridState, t)

Next ==
    \/ QueueTimeout(CoarseClock)
    \/ BackPress(CoarseClock)
    \/ UpPress(CoarseClock)
    \/ MoveKey(CoarseClock, {"Left", "Right"}, {"Press"})
    \/ Physics

Spec == Init /\ [][Next]_vars

(***************************************************************************)
(* Walking right from the start: Right presses and repeats, events the     *)
(* loop ignores, and frames without input.  The grid variant runs on a     *)
(* grid whose blocks all stand in the last column.                         *)
(***************************************************************************)
PathDraws ==
    << <<0, 38>>,
       <<38, 0>>, <<38, 0>>, <<38, 0>>, <<38, 0>>,
       <<4, 3>>, <<5, 10>>, <<5, 20>>, <<5, 30>> >>

PathGrid == init_grid(GenStart, PathDraws)

InitRight ==
    \E t \in CoarseClock :
        \/ GameStart("grid", PathGrid, t)
        \/ GameStart("plain", NoGridState, t)

NextRight ==
    \/ QueueTimeout(CoarseClock)
    \/ OtherEvent(CoarseClock, SomeIgnoredEvents)
    \/ MoveKey(CoarseClock, {"Right"}, {"Press", "Repeat"})
    \/ Physics

SpecRight == InitRight /\ [][NextRight]_vars

(***************************************************************************)
(* Jumping on the spot: Up presses, events the loop ignores, and frames    *)
(* without input, the tick counter read at every value of ClockValues.     *)
(***************************************************************************)
InitJump ==
    \E t \in ClockValues :
        \/ GameStart("grid", PlayGrid, t)
        \/ GameStart("plain", NoGridState, t)

NextJump ==
    \/ QueueTimeout(ClockValues)
    \/ OtherEvent(ClockValues, SomeIgnoredEvents)
    \/ UpPress(ClockValues)
    \/ Physics

SpecJump == InitJump /\ [][NextJump]_vars

(***************************************************************************)
(* Grid generation: panis_main calls init_grid, whose loops draw from      *)
(* rand().  One step is one loop iteration; the last one returns to        *)
(* panis_main, which goes on to the main loop.                             *)
(***************************************************************************)
GenState ==
    [phase |-> pc, i |-> gen.i, pills_placed |-> gen.pills_placed,
     attempts |-> gen.attempts, grid |-> grid, score |-> score,
     block_count |-> block_count, pill_count |-> pill_count]

GenResult(n) ==
    /\ pc' = PcOf(n)
    /\ gen' = [i |-> n.i, pills_placed |-> n.pills_placed,
                attempts |-> n.attempts]
    /\ grid' = n.grid
    /\ score' = n.score
    /\ block_count' = n.block_count
    /\ pill_count' = n.pill_count
    /\ UNCHANGED <<variant, xVars, yVars, running, last_jump_time, tick,
                   event, vibro, query, jumped, state, music>>

PlaceAirBlock(rands) ==
    /\ pc = "air"
    /\ \E r1 \in rands, r2 \in rands : GenResult(init_grid_air(GenState, r1, r2))

PlaceGroundBlock(rands) ==
    /\ pc = "ground"
    /\ \E r1 \in rands : GenResult(init_grid_ground(GenState, r1))

PlacePill(rands) ==
    /\ pc = "pills"
    /\ \E r1 \in rands, r2 \in rands : GenResult(init_grid_pill(GenState, r1, r2))

InitGen == GameStart("grid", GenStart, 0)

NextGen ==
    \/ PlaceAirBlock(RandValues)
    \/ PlaceGroundBlock(RandValues)
    \/ PlacePill(RandValues)

SpecGen == InitGen /\ [][NextGen]_vars

\* Generation as a process that keeps running: init_grid waits for nothing,
\* so a loop iteration that can run does run.  The ground blocks are all
\* drawn for one column.
NextGenFair ==
    \/ PlaceAirBlock(RandValues)
    \/ PlaceGroundBlock({RandBase})
    \/ PlacePill(RandValues)

SpecGenFair == InitGen /\ [][NextGenFair]_vars /\ WF_vars(NextGenFair)

(***************************************************************************)
(* Generation followed by a session on the grid it left: the character     *)
(* jumps on the spot.  rand() returns one of the two values after          *)
(* RandBase, which puts pills and blocks into the columns above the        *)
(* character's right half and to the right of it.                          *)
(***************************************************************************)
PlayRandValues == {RandBase + 1, RandBase + 2}
StartClock == {0}

NextGenPlay ==
    \/ PlaceAirBlock(PlayRandValues)
    \/ PlaceGroundBlock(PlayRandValues)
    \/ PlacePill(PlayRandValues)
    \/ QueueTimeout(StartClock)
    \/ UpPress(StartClock)
    \/ Physics

SpecGenPlay == InitGen /\ [][NextGenPlay]_vars

(***************************************************************************)
(* get_cell_at on its own: a query at any pixel coordinate within          *)
(* QueryMargin of the grid's span, on a generated grid that has cells      *)
(* filled in its first row and first column.                               *)
(***************************************************************************)
EdgeDraws ==
    << <<0, 0>>,
       <<0, 0>>, <<0, 0>>, <<38, 0>>, <<38, 0>>,
       <<0, 1>>, <<0, 38>>, <<5, 1>>, <<3, 0>> >>

EdgeGrid == init_grid(GenStart, EdgeDraws)

\* The arguments of the call are chosen; the result is not there yet.
InitCell ==
    \E x \in QueryXs, y \in QueryYs :
        /\ variant = "grid"
        /\ pc = "query"
        /\ grid = EdgeGrid.grid
        /\ score = EdgeGrid.score
        /\ block_count = EdgeGrid.block_count
        /\ pill_count = EdgeGrid.pill_count
        /\ gen = [i |-> EdgeGrid.i, pills_placed |-> EdgeGrid.pills_placed,
                   attempts |-> EdgeGrid.attempts]
        /\ world_x = CHAR_START_X
        /\ screen_x = CHAR_START_X
        /\ camera_x = 0
        /\ facing_right = TRUE
        /\ running = TRUE
        /\ y_pos = GROUND_Y - CHAR_HEIGHT
        /\ y_velocity = 0
        /\ on_ground = TRUE
        /\ last_jump_time = 0
        /\ tick = 0
        /\ event = NoEvent
        /\ vibro = 0
        /\ query = [x |-> x, y |-> y, cell |-> CELL_EMPTY]
        /\ jumped = FALSE
        /\ state = game_state_init
        /\ music = NoThread

\* The call returns.
CellQuery ==
    /\ pc = "query"
    /\ query' = [query EXCEPT !.cell = get_cell_at(grid, query.x, query.y)]
    /\ pc' = "queried"
    /\ UNCHANGED <<variant, gridVars, gen, xVars, yVars, running,
                   last_jump_time, tick, event, vibro, jumped, state, music>>

NextCell == CellQuery

SpecCell == InitCell /\ [][NextCell]_vars

(***************************************************************************)
(* The press-duration programs' panis_main (bread.c 495-604; part_001      *)
(* 376-520).  An iteration of the loop is a step at "input" and a step at  *)
(* "physics", which runs game_update and tests `running`; after the loop   *)
(* come "cleanup", "join" (the music program's furi_thread_join) and       *)
(* "returned".                                                             *)
(***************************************************************************)
PressVariants == {"music", "part"}
panis_width(v) == IF v = "music" THEN PANIS_WIDTH ELSE PANIS_WIDTH_PART

\* The variables of the double-press programs, which these programs lack.
gameVars ==
    <<gridVars, gen, xVars, yVars, last_jump_time, vibro, query>>

\* panis_main up to the main loop, the tick counter at t; the music program
\* has started its thread.
PressStart(v, t) ==
    /\ variant = v
    /\ pc = "input"
    /\ grid = NoGridState.grid
    /\ score = 0
    /\ block_count = 0
    /\ pill_count = 0
    /\ gen = [i |-> 0, pills_placed |-> 0, attempts |-> 0]
    /\ world_x = CHAR_START_X
    /\ screen_x = CHAR_START_X
    /\ camera_x = 0
    /\ facing_right = TRUE
    /\ running = TRUE
    /\ y_pos = GROUND_Y - CHAR_HEIGHT
    /\ y_velocity = 0
    /\ on_ground = TRUE
    /\ last_jump_time = 0
    /\ tick = t
    /\ event = NoEvent
    /\ vibro = 0
    /\ query = NoQuery
    /\ jumped = FALSE
    /\ state = game_state_init
    /\ music = IF v = "music" THEN ThreadStarted ELSE NoThread

\* furi_message_queue_get, which waits up to 16 ms while the tick counter
\* moves on.
PressWait(clock) ==
    /\ variant \in PressVariants
    /\ pc = "input"
    /\ tick' \in {t \in clock : t >= tick}
    /\ pc' = "physics"
    /\ UNCHANGED <<variant, gameVars>>

\* The queue timed out: no event.
PressTimeout(clock) ==
    /\ PressWait(clock)
    /\ event' = NoEvent
    /\ UNCHANGED <<state, running, jumped, music>>

\* Back held long: running = false.  The iteration goes on to game_update.
BackLong(clock) ==
    /\ PressWait(clock)
    /\ event' = Ev("Back", "Long")
    /\ running' = FALSE
    /\ UNCHANGED <<state, jumped, music>>

\* Left or Right, pressed or repeated: handle_movement.
PressMove(clock, keys, types) ==
    /\ PressWait(clock)
    /\ \E k \in keys \cap {"Left", "Right"}, t \in types \cap {"Press", "Repeat"} :
         /\ event' = Ev(k, t)
         /\ state' = handle_movement(state, k, panis_width(variant))
    /\ UNCHANGED <<running, jumped, music>>

\* Up, any type: handle_jump.
PressJump(clock, types) ==
    /\ PressWait(clock)
    /\ \E t \in types \cap Types :
         /\ event' = Ev("Up", t)
         /\ state' = handle_jump_type(state, t, tick')
         /\ jumped' = IF t = "Press" /\ state.jump_state = "None" THEN TRUE
                       ELSE IF t = "Release" THEN FALSE ELSE jumped
    /\ UNCHANGED <<running, music>>

\* Down pressed, in the music program: music_enabled is toggled, and
\* furi_hal_speaker_stop is called when that switched the music off.
DownPress(clock) ==
    /\ PressWait(clock)
    /\ variant = "music"
    /\ event' = Ev("Down", "Press")
    /\ state' = [state EXCEPT !.music_enabled = ~state.music_enabled]
    /\ music' = IF ~state'.music_enabled
                THEN [music EXCEPT !.speaker = FALSE]
                ELSE music
    /\ UNCHANGED <<running, jumped>>

\* The events these loops read and do nothing with.
PressIgnoredEvents(v) ==
    {Ev(k, t) : k \in {"Ok"}, t \in Types}
      \cup {Ev("Back", t) : t \in Types \ {"Long"}}
      \cup {Ev(k, t) : k \in {"Left", "Right"}, t \in Types \ {"Press", "Repeat"}}
      \cup {Ev("Down", t) : t \in IF v = "music" THEN Types \ {"Press"} ELSE Types}

PressOther(clock, events) ==
    /\ PressWait(clock)
    /\ event' \in events \cap PressIgnoredEvents(variant)
    /\ UNCHANGED <<state, running, jumped, music>>

\* game_update and view_port_update, then the loop's test of `running`.
GameUpdate ==
    /\ variant \in PressVariants
    /\ pc = "physics"
    /\ state' = game_update(state)
    /\ event' = NoEvent
    /\ pc' = IF running THEN "input" ELSE "cleanup"
    /\ UNCHANGED <<variant, gameVars, jumped, running, tick, music>>

\* After the loop: the music program clears music_enabled, stops the
\* speaker and goes on to join its thread; part_001 frees what it allocated
\* and returns.
Cleanup ==
    /\ variant \in PressVariants
    /\ pc = "cleanup"
    /\ IF variant = "music"
       THEN /\ state' = [state EXCEPT !.music_enabled = FALSE]
            /\ music' = [music EXCEPT !.speaker = FALSE]
            /\ pc' = "join"
       ELSE /\ pc' = "returned"
            /\ UNCHANGED <<state, music>>
    /\ UNCHANGED <<variant, gameVars, jumped, running, tick, event>>

\* furi_thread_join(music_thread): returns once the thread has stopped, and
\* waits while it has not; then the frees and return 0.
ThreadJoin ==
    /\ variant = "music"
    /\ pc = "join"
    /\ pc' = IF music.pc = "stopped" THEN "returned" ELSE pc
    /\ UNCHANGED <<variant, gameVars, jumped, running, tick, event, state,
                   music>>

\* background_melody[note_index].frequency == NOTE_REST: the melody's first
\* entry is its only rest.
is_rest(note_index) == note_index = 0

\* music_player_thread (lines 230-290), one pass of its while(true) loop:
\* the test of music_enabled; then either the 100 ms delay of the disabled
\* branch, or the start of the note (furi_hal_speaker_start, unless it is a
\* rest) and, a delay later, its end (furi_hal_speaker_stop) with the step
\* to the next note.  The main thread runs between any two of these steps.
\* The loop has no exit.
MusicCheck ==
    /\ variant = "music"
    /\ music.pc = "check"
    /\ music' = [music EXCEPT !.pc = IF state.music_enabled THEN "play"
                                                             ELSE "idle"]
    /\ UNCHANGED <<variant, pc, gameVars, jumped, running, tick, event, state>>

MusicStart ==
    /\ variant = "music"
    /\ music.pc = "play"
    /\ music' = [music EXCEPT !.pc = "delay",
                              !.speaker = IF is_rest(music.note_index)
                                          THEN @ ELSE TRUE]
    /\ UNCHANGED <<variant, pc, gameVars, jumped, running, tick, event, state>>

MusicPlay ==
    /\ variant = "music"
    /\ music.pc = "delay"
    /\ music' = [pc |-> "check",
                 note_index |-> IF music.note_index + 1 >= melody_length
                                THEN 0 ELSE music.note_index + 1,
                 speaker |-> IF is_rest(music.note_index)
                             THEN music.speaker ELSE FALSE]
    /\ UNCHANGED <<variant, pc, gameVars, jumped, running, tick, event, state>>

MusicIdle ==
    /\ variant = "music"
    /\ music.pc = "idle"
    /\ music' = [music EXCEPT !.pc = "check"]
    /\ UNCHANGED <<variant, pc, gameVars, jumped, running, tick, event, state>>

(***************************************************************************)
(* The two main loops side by side: a session of the grid program and one  *)
(* of the music program, each with its exit request, jumps, walking to the *)
(* right, events it ignores and frames without input.                      *)
(***************************************************************************)
InitLoop ==
    \/ GameStart("grid", PlayGrid, 0)
    \/ PressStart("music", 0)

NextLoop ==
    \/ QueueTimeout(StartClock)
    \/ BackPress(StartClock)
    \/ UpPress(StartClock)
    \/ MoveKey(StartClock, {"Right"}, {"Press"})
    \/ OtherEvent(StartClock, SomeIgnoredEvents)
    \/ Physics
    \/ PressTimeout(StartClock)
    \/ BackLong(StartClock)
    \/ PressJump(StartClock, {"Press", "Long"})
    \/ PressMove(StartClock, {"Right"}, {"Press"})
    \/ DownPress(StartClock)
    \/ PressOther(StartClock, SomeIgnoredEvents)
    \/ GameUpdate

SpecLoop == InitLoop /\ [][NextLoop]_vars

(***************************************************************************)
(* The life cycle of the press-duration programs: a session with jumps on  *)
(* the spot, the music toggled, and the exit request, then the code after  *)
(* the loop, next to the music thread.  In the fair specification each     *)
(* thread runs whenever it can: the scheduler starves neither, and the     *)
(* queue read returns after 16 ms at the latest.                           *)
(***************************************************************************)
InitExit ==
    \/ PressStart("music", 0)
    \/ PressStart("part", 0)

panis_main ==
    \/ PressTimeout(StartClock)
    \/ BackLong(StartClock)
    \/ DownPress(StartClock)
    \/ PressJump(StartClock, {"Press"})
    \/ GameUpdate
    \/ Cleanup
    \/ ThreadJoin

music_player_thread ==
    \/ MusicCheck
    \/ MusicStart
    \/ MusicPlay
    \/ MusicIdle

NextExit ==
    \/ panis_main
    \/ music_player_thread

SpecExit == InitExit /\ [][NextExit]_vars

SpecExitFair ==
    SpecExit /\ WF_vars(panis_main) /\ WF_vars(music_player_thread)

(***************************************************************************)
(* Walking in the press-duration programs: Left and Right, pressed and     *)
(* repeated, and frames without input, over the whole map.                 *)
(***************************************************************************)
InitWalk ==
    \/ PressStart("music", 0)
    \/ PressStart("part", 0)

NextWalk ==
    \/ PressTimeout(StartClock)
    \/ PressMove(StartClock, {"Left", "Right"}, {"Press", "Repeat"})
    \/ GameUpdate

SpecWalk == InitWalk /\ [][NextWalk]_vars

(***************************************************************************)
(* Jumping in the press-duration programs: Up pressed, held long and       *)
(* released in any order, events the loop ignores, and frames without      *)
(* input, the tick counter read at either end of its values.               *)
(***************************************************************************)
InitPress ==
    \E t \in CoarseClock :
        \/ PressStart("music", t)
        \/ PressStart("part", t)

NextPress ==
    \/ PressTimeout(CoarseClock)
    \/ PressJump(CoarseClock, {"Press", "Long", "Release"})
    \/ PressOther(CoarseClock, SomeIgnoredEvents)
    \/ GameUpdate

SpecPress == InitPress /\ [][NextPress]_vars

(***************************************************************************)
(* A session of the grid program that goes on: the loop reads the queue    *)
(* for at most 100 ms and then runs the physics tick, so while no Back     *)
(* press ends the session an iteration that can run does run.  The tick    *)
(* counter is read at one value, a double-press window or more after 0:    *)
(* the first jump is a small one, the later ones are big.                  *)
(***************************************************************************)
LateClock == {MaxClock * ClockStep}

InitLand == \E t \in LateClock : GameStart("grid", PlayGrid, t)

NextLand ==
    \/ QueueTimeout(LateClock)
    \/ UpPress(LateClock)
    \/ MoveKey(LateClock, {"Left", "Right"}, {"Press"})
    \/ Physics

SpecLand == InitLand /\ [][NextLand]_vars /\ WF_vars(NextLand)

(***************************************************************************)
(* A session under the jump-height cap: the grid has pills in its top row  *)
(* to the right of the start, and the character jumps and steps right.     *)
(* The tick counter stays at 0, where every jump is a big one.             *)
(***************************************************************************)
CapDraws ==
    << <<0, 38>>,
       <<38, 0>>, <<38, 0>>, <<38, 0>>, <<38, 0>>,
       <<0, 5>>, <<0, 6>>, <<4, 7>>, <<5, 10>> >>

CapGrid == init_grid(GenStart, CapDraws)

InitCap == GameStart("grid", CapGrid, 0)

NextCap ==
    \/ QueueTimeout(StartClock)
    \/ UpPress(StartClock)
    \/ MoveKey(StartClock, {"Left", "Right"}, {"Press"})
    \/ Physics

SpecCap == InitCap /\ [][NextCap]_vars

(***************************************************************************)
(* Properties.                                                             *)
(***************************************************************************)
\* A step that handles a Right, or an Up press, read from the queue.
RightStep ==
    pc = "input" /\ event' \in {Ev("Right", "Press"), Ev("Right", "Repeat")}
UpStep == pc = "input" /\ event' = Ev("Up", "Press")
\* A step that handles a Left or Right input, and one that handles key k.
MoveStep ==
    pc = "input" /\ event' \in {Ev(k, t) : k \in {"Left", "Right"},
                                            t \in {"Press", "Repeat"}}
MoveStepOf(k) == MoveStep /\ event'.key = k
\* A Block stands where the input handled in this step would move the
\* character to.
BlockedStep ==
    /\ variant = "grid"
    /\ \/ event'.key = "Right" /\ world_x < TOTAL_MAP_WIDTH - CHAR_WIDTH
          /\ check_block_collision(grid, world_x + MOVEMENT_SPEED, y_pos)
       \/ event'.key = "Left" /\ world_x > 0
          /\ check_block_collision(grid, world_x - MOVEMENT_SPEED, y_pos)
\* The character's box, moved one step the way the input handled in this
\* step points, has a corner in a Block.
TentativeBoxInBlock ==
    \/ event'.key = "Right"
          /\ check_block_collision(grid, world_x + MOVEMENT_SPEED, y_pos)
    \/ event'.key = "Left"
          /\ check_block_collision(grid, world_x - MOVEMENT_SPEED, y_pos)
\* A frame without input: the physics step after a queue timeout.
IdleTick == pc = "physics" /\ event = NoEvent
\* No Block where a Right input would move the character to.
PathFree ==
    variant = "plain"
      \/ ~check_block_collision(grid, world_x + MOVEMENT_SPEED, y_pos)
PillCells(g) == {rc \in Rows \X Cols : g[rc[1]][rc[2]] = CELL_PILL}
BlockCells(g) == {rc \in Rows \X Cols : g[rc[1]][rc[2]] = CELL_BLOCK}
\* The character is in the air.
Airborne ==
    IF variant \in PressVariants THEN state.jump_state # "None" ELSE ~on_ground
\* Every velocity that handle_jump may halve is a whole number of units, so
\* the halved float is the halved number of units.
HalvingExact ==
    (state.jump_state = "Rising" /\ state.velocity_y < 0)
      => state.velocity_y % 2 = 0
\* The top of a jump that no Release has cut short: the velocity has come
\* to 0 with the button held since the jump began.
Apex ==
    /\ variant \in PressVariants
    /\ state.jump_state = "Rising"
    /\ state.velocity_y = 0
    /\ state.jump_button_held
\* The heights, in units of 1/FRACTION pixel, within Tolerance pixels of h.
Tolerance == 5
About(h) == {n \in 0 .. Px(SCREEN_HEIGHT) : Px(h - Tolerance) <= n /\ n <= Px(h + Tolerance)}
\* update_physics of the grid program up to its collision tests, in the
\* state a tick starts from: the velocity after gravity and the height cap,
\* and the tentative position new_y.
MaxHeightY == GROUND_Y - CHAR_HEIGHT - MAX_JUMP_HEIGHT
Capped == y_pos + apply_gravity(y_velocity, on_ground) < MaxHeightY
TickVelocity == IF Capped THEN 0 ELSE apply_gravity(y_velocity, on_ground)
TentativeY ==
    IF Capped THEN MaxHeightY ELSE y_pos + apply_gravity(y_velocity, on_ground)
\* A tick of the grid program, and the ways it resolves the vertical move:
\* the branch that lands on a Block, and the branch that hits one above.
GridTick == variant = "grid" /\ pc = "physics"
LandsOnBlock ==
    /\ GridTick
    /\ TickVelocity > 0
    /\ check_ground_support(grid, world_x, TentativeY - 1)
HitsCeiling ==
    /\ GridTick
    /\ TickVelocity < 0
    /\ check_block_collision(grid, world_x, TentativeY)
\* The cells whose pixel area the 10x10 box at (wx, y) overlaps, and whether
\* one of them is a Block.
BoxCells(wx, y) ==
    {rc \in Rows \X Cols :
        /\ rc[2] * CELL_SIZE <= wx + CHAR_WIDTH - 1
        /\ wx <= rc[2] * CELL_SIZE + CELL_SIZE - 1
        /\ rc[1] * CELL_SIZE <= y + CHAR_HEIGHT - 1
        /\ y <= rc[1] * CELL_SIZE + CELL_SIZE - 1}
BoxInBlock(g, wx, y) == BoxCells(wx, y) \cap BlockCells(g) # {}
\* The character stands still on top of a Block: above the ground plane,
\* clear of every Block, its feet on a cell boundary and a Block directly
\* under a bottom corner.
RestingOnBlock ==
    /\ variant = "grid"
    /\ y_velocity = 0
    /\ y_pos >= 0 /\ y_pos < GROUND_Y - CHAR_HEIGHT
    /\ (y_pos + CHAR_HEIGHT) % CELL_SIZE = 0
    /\ check_ground_support(grid, world_x, y_pos)
    /\ ~BoxInBlock(grid, world_x, y_pos)
\* init_grid has returned.
Generated == pc \notin {"air", "ground", "pills"}
\* A pixel coordinate outside the grid's span.
OutsideSpan(x, y) ==
    x < 0 \/ x >= GRID_COLS * CELL_SIZE \/ y < 0 \/ y >= GRID_ROWS * CELL_SIZE

\* C1: in every reachable state of both variants, world_x equals
\* camera_x + screen_x, blocked and clamped inputs included.
C1_WorldIsCameraPlusScreen == world_x = camera_x + screen_x

\* C1 witness: a Right input has just moved the character into the right
\* world edge, where world_x, camera_x and screen_x are all clamped.
C1_ClampedAtRightEdge ==
    /\ pc = "physics" /\ event.key = "Right" /\ vibro = 1
    /\ world_x = 374 /\ camera_x = 256 /\ screen_x = 118

\* C2: in every reachable state, 0 <= camera_x <= 256, 0 <= screen_x <= 118
\* and 0 <= world_x <= 374.
C2_CoordinatesInRange ==
    /\ camera_x \in 0 .. 256
    /\ screen_x \in 0 .. 118
    /\ world_x \in 0 .. 374

\* C2 witness: a Left input has just moved the character into the left
\* world edge, with all three coordinates at their lower bounds.
C2_ClampedAtLeftEdge ==
    /\ pc = "physics" /\ event.key = "Left" /\ vibro = 1
    /\ world_x = 0 /\ camera_x = 0 /\ screen_x = 0

\* C3: walking right from (32, 32, 0) with no Block in the path, a Right
\* input raises screen_x by 4 while screen_x is below 64; from screen_x = 64
\* on it raises camera_x by 4 and leaves screen_x at 64 while camera_x is
\* below 256; screen_x grows again only once camera_x is 256.
C3_ScrollPhases ==
    [][(RightStep /\ PathFree) =>
          /\ (screen_x < 64 =>
                screen_x' = screen_x + 4 /\ camera_x' = camera_x)
          /\ (screen_x >= 64 /\ camera_x < 256 =>
                screen_x = 64 /\ screen_x' = 64 /\ camera_x' = camera_x + 4)
          /\ (screen_x' > screen_x => screen_x < 64 \/ camera_x = 256)]_vars

\* C3 witness: the camera has scrolled all the way and screen_x has grown
\* past 64 again.
C3_PastFullScroll ==
    /\ pc = "physics" /\ event.key = "Right"
    /\ camera_x = 256 /\ screen_x = 68

\* C4: from a state with on_ground and y_velocity = 0, a physics tick with
\* no input leaves y_pos, y_velocity and on_ground unchanged, on the ground
\* plane and on top of a Block alike.
C4_RestIsStable ==
    [][(IdleTick /\ on_ground /\ y_velocity = 0) =>
          (y_pos' = y_pos /\ y_velocity' = y_velocity
             /\ on_ground' = on_ground)]_vars

\* C5 as stated: an Up press that follows an earlier one sets y_velocity to
\* the big jump's velocity when it comes less than the double-press window
\* after the earlier press and to SMALL_JUMP_VELOCITY otherwise.
C5_SecondPressDecides ==
    [][(UpStep /\ jumped) =>
          y_velocity' = (IF tick' - last_jump_time < jump_window(variant)
                         THEN jump_big(variant) ELSE SMALL_JUMP_VELOCITY)]_vars

\* C5 amended: the same for an Up press handled while on_ground is true, the
\* time measured from the last accepted press; a press in the air changes
\* neither y_velocity nor last_jump_time.
C5_SecondPressOnGroundDecides ==
    [][(UpStep /\ jumped) =>
          IF on_ground
          THEN y_velocity' = (IF tick' - last_jump_time < jump_window(variant)
                              THEN jump_big(variant) ELSE SMALL_JUMP_VELOCITY)
          ELSE y_velocity' = y_velocity /\ last_jump_time' = last_jump_time]_vars

\* C5 witness: a press one full window or more into the session has given
\* the big jump, so an accepted press came less than a window before it.
C5_DoublePressSeen ==
    /\ pc = "physics" /\ event = Ev("Up", "Press")
    /\ y_velocity = jump_big(variant)
    /\ last_jump_time = tick /\ tick >= jump_window(variant)

\* C6: an Up press while on_ground and y_velocity = 0, with no accepted jump
\* within the double-press window before it, sets y_velocity to
\* SMALL_JUMP_VELOCITY and on_ground to false, and on_ground is still false
\* after the next physics tick.
C6_SinglePressSmallJump ==
    [][/\ (UpStep /\ on_ground /\ y_velocity = 0
             /\ (~jumped \/ tick' - last_jump_time >= jump_window(variant)))
          => (y_velocity' = SMALL_JUMP_VELOCITY /\ ~on_ground')
       /\ (pc = "physics" /\ event = Ev("Up", "Press")
             /\ y_velocity = SMALL_JUMP_VELOCITY /\ ~on_ground)
          => ~on_ground']_vars

\* C7 as stated: when init_grid returns without having used up its attempt
\* budget, it has placed round(234 * 0.02) = 5 pills and pill_count is 5.
C7_FivePills ==
    (pc = "input" /\ gen.attempts < max_attempts) =>
        (pill_count = 5 /\ Cardinality(PillCells(grid)) = 5)

\* C7 amended: it has placed (int)(234 * 0.02) = 4 pills and pill_count is
\* 4; with the budget used up there are at most 4; and the pill loop ends
\* with the attempt that places the fourth pill.
C7_FourPills ==
    /\ [](pc = "input" =>
            /\ pill_count = Cardinality(PillCells(grid))
            /\ pill_count <= 4
            /\ (gen.attempts < max_attempts => pill_count = 4))
    /\ [][(pc = "pills" /\ pill_count' = 4) => pc' = "input"]_vars

\* C7 witness: init_grid has returned with attempts to spare.
C7_GeneratedWithinBudget ==
    pc = "input" /\ gen.attempts < max_attempts /\ gen.attempts > 4
      /\ gen.pills_placed = pill_count /\ block_count = 5

\* C8: in the grid variant no input and no physics tick increases pill_count
\* or decreases score.
C8_PillsDownScoreUp ==
    [][variant = "grid" => (pill_count' <= pill_count /\ score' >= score)]_vars

\* C8 witness: every pill of the grid has been collected.
C8_AllPillsCollected ==
    variant = "grid" /\ pill_count = 0 /\ score = 40 /\ PillCells(grid) = {}

\* C9: get_cell_at returns CELL_EMPTY for every pixel coordinate outside the
\* grid's span, negative coordinates included.
C9_EmptyOutsideSpan ==
    (pc = "queried" /\ OutsideSpan(query.x, query.y)) => query.cell = CELL_EMPTY

C11_CountsMatchGrid ==
    (variant = "grid" /\ Generated) =>
        /\ pill_count = Cardinality(PillCells(grid))
        /\ block_count = Cardinality(BlockCells(grid))

\* C11 witness: the attempt budget ran out with fewer than 4 pills placed,
\* and the character has since collected one of them.
C11_UnderDeliveredAndCollected ==
    /\ Generated
    /\ gen.attempts = max_attempts /\ gen.pills_placed < 4
    /\ pill_count < gen.pills_placed /\ score > 0

\* C12: after generation every step of the grid variant leaves each cell as
\* it is or turns a CELL_PILL cell into CELL_EMPTY; a CELL_BLOCK cell stays
\* CELL_BLOCK and block_count never changes.
C12_GridChangesByPickupOnly ==
    [][(variant = "grid" /\ Generated) =>
          /\ block_count' = block_count
          /\ \/ grid' = grid
             \/ \A rc \in Rows \X Cols :
                  \/ grid'[rc[1]][rc[2]] = grid[rc[1]][rc[2]]
                  \/ /\ grid[rc[1]][rc[2]] = CELL_PILL
                     /\ grid'[rc[1]][rc[2]] = CELL_EMPTY]_vars

\* C12 witness: three pills have been picked up, the fourth pill and all
\* five blocks are where generation put them.
C12_PickedUpThree ==
    /\ variant = "grid" /\ pill_count = 1 /\ score = 30
    /\ grid[4][7] = CELL_PILL
    /\ block_count = 5 /\ BlockCells(grid) = BlockCells(PlayGrid.grid)

\* C13: a Left input at world_x = 0 leaves world_x, screen_x and camera_x
\* unchanged and emits no vibration.
C13_LeftAtLeftEdgeIsNoOp ==
    [][(MoveStepOf("Left") /\ world_x = 0) =>
          /\ world_x' = world_x /\ screen_x' = screen_x
          /\ camera_x' = camera_x
          /\ vibro' = 0]_vars

\* C13 witness: a Left input has just been handled with the character
\* resting at world_x = 0, silently.
C13_LeftHandledAtLeftEdge ==
    /\ pc = "physics" /\ event.key = "Left"
    /\ world_x = 0 /\ screen_x = 0 /\ camera_x = 0 /\ vibro = 0

\* C14: a Left/Right input that no Block stops vibrates only if it changed
\* world_x and the new world_x is 0 or TOTAL_MAP_WIDTH - CHAR_WIDTH; an
\* input handled while the character rests on a world edge and stays there
\* does not vibrate.
C14_BumpOnlyOnArrival ==
    [][(MoveStep /\ ~BlockedStep) =>
          /\ (vibro' > 0 =>
                world_x' # world_x /\ world_x' \in {0, 374})
          /\ (world_x \in {0, 374} /\ world_x' = world_x => vibro' = 0)]_vars

\* C14 witness: a Right input has just been handled with the character
\* resting at the right world edge, silently.
C14_RightHandledAtRightEdge ==
    /\ pc = "physics" /\ event.key = "Right"
    /\ world_x = 374 /\ vibro = 0

\* C15: init_grid returns: its air and ground loops run their fixed number
\* of draws (1 and 4), its pill loop at most 2 * GRID_ROWS * GRID_COLS = 468
\* attempts, also when fewer empty cells can be drawn than pills are wanted.
C15_GenerationTerminates ==
    /\ <>Generated
    /\ [](/\ gen.attempts <= 468
          /\ (pc = "air" => gen.i < 1)
          /\ (pc = "ground" => gen.i < 4))

\* C15 witness: the pill loop has ended on its attempt budget, with fewer
\* than 4 pills placed.
C15_BudgetUsedUp ==
    Generated /\ gen.attempts = 468 /\ gen.pills_placed < 4
      /\ pill_count = gen.pills_placed


\* C16: in the main loop of the grid program and of the music program, an
\* iteration that does not end the session handles at most one event, at
\* "input", and then runs exactly one physics tick, at "physics", in that
\* order: the step at "input" leaves the height alone and leads to
\* "physics", the step at "physics" leaves the horizontal position alone,
\* adds GRAVITY once to the velocity of a character in the air (or stops
\* it) and leads back to "input".  An iteration whose queue read timed out
\* changes nothing at "input" and still runs the tick.
C16_InputThenOnePhysicsTick ==
    [][/\ pc = "input" =>
            /\ event' \in AllEvents \cup {NoEvent}
            /\ pc' \in {"physics", "exit"}
            /\ running' => pc' = "physics"
            /\ y_pos' = y_pos /\ state'.y = state.y
            /\ event' = NoEvent =>
                   UNCHANGED <<xVars, yVars, gridVars, state, running>>
       /\ pc = "physics" =>
            /\ UNCHANGED <<xVars, running>>
            /\ state'.x = state.x /\ state'.map_offset_x = state.map_offset_x
            /\ running => pc' = "input"
            /\ (Airborne /\ variant = "grid") =>
                   \/ y_velocity' = y_velocity + GRAVITY
                   \/ y_velocity' = MAX_FALL_SPEED
                   \/ y_velocity' = 0
            /\ (Airborne /\ variant = "music") =>
                   \/ state'.velocity_y = state.velocity_y + Px(GRAVITY)
                   \/ state'.velocity_y = 0 /\ state'.jump_state = "None"]_vars

\* A frame without input of the music program that finds the character in
\* the air, falling: the queue read has timed out, game_update comes next.
C16_IdleFrameInTheAir ==
    /\ variant = "music" /\ pc = "physics" /\ event = NoEvent /\ running
    /\ state.jump_state = "Rising"
    /\ state.velocity_y = Px(GRAVITY)
    /\ state.y < Px(GROUND_Y_FEET)

\* C17: in the music program, once the Back long-hold has been handled
\* (running is false), the program eventually gets through its cleanup:
\* the loop ends, furi_thread_join on the music thread returns, and
\* panis_main returns.
C17_ReturnsAfterBackLong ==
    (variant = "music" /\ ~running) ~> (pc = "returned")

\* C18: in the press-duration programs a Right input, pressed or repeated,
\* changes x or map_offset_x in every reachable state but the one with the
\* map fully scrolled and the character at the right edge of the screen;
\* so the character can move right again after it has moved left.
C18_RightAlwaysMoves ==
    [][(/\ pc = "input"
        /\ event' \in {Ev("Right", "Press"), Ev("Right", "Repeat")}
        /\ ~(/\ state.map_offset_x = MAP_WIDTH - SCREEN_WIDTH
             /\ state.x = SCREEN_WIDTH - panis_width(variant)))
       => (state'.x # state.x \/ state'.map_offset_x # state.map_offset_x)]_vars

C20_PeaksAbout25And50 ==
    Apex =>
      /\ Px(GROUND_Y_FEET) - state.y \in About(25) \cup About(50)
      /\ ~jumped => Px(GROUND_Y_FEET) - state.y \in About(50)

\* C21: in every program the session ends only on a Back long-hold: the
\* step that clears `running` handles a Back event of type Long, and a
\* Back event of type Press leaves `running` set.
C21_OnlyBackLongEndsSession ==
    [][/\ (running /\ ~running') => event' = Ev("Back", "Long")
       /\ (pc = "input" /\ event' = Ev("Back", "Press")) => running']_vars

\* C22: in the grid program, a tick that ends a downward move by landing
\* on a Block leaves the character exactly atop that Block: a Block cell
\* lies directly under one of its bottom corners (at pixel row
\* y_pos + CHAR_HEIGHT), y_velocity is 0, on_ground is true, and no corner
\* of its box is in a Block.
C22_LandsAtopBlock ==
    [][LandsOnBlock =>
         /\ y_velocity' = 0
         /\ on_ground'
         /\ \/ get_cell_at(grid', world_x', y_pos' + CHAR_HEIGHT) = CELL_BLOCK
            \/ get_cell_at(grid', world_x' + CHAR_WIDTH - 1,
                           y_pos' + CHAR_HEIGHT) = CELL_BLOCK
         /\ ~check_block_collision(grid', world_x', y_pos')]_vars

\* C23: in the grid program, a tick that moves the character downward lands
\* it in that same tick whenever the cell one pixel below a bottom corner
\* of the tentative box (pixel row new_y + CHAR_HEIGHT) is a Block.
C23_LandsInTheSameTick ==
    [][(/\ GridTick
        /\ TickVelocity > 0
        /\ check_ground_support(grid, world_x, TentativeY))
       => (on_ground' /\ y_velocity' = 0)]_vars

\* C24 as stated: in the grid program a Right input whose step would pass
\* TOTAL_MAP_WIDTH - CHAR_WIDTH and a Left input whose step would pass 0
\* leave world_x, screen_x and camera_x unchanged.
C24_NoPartialMove ==
    [][(variant = "grid" /\ MoveStep) =>
         /\ (event'.key = "Right"
               /\ world_x + MOVEMENT_SPEED > TOTAL_MAP_WIDTH - CHAR_WIDTH)
              => UNCHANGED <<world_x, screen_x, camera_x>>
         /\ (event'.key = "Left" /\ world_x - MOVEMENT_SPEED < 0)
              => UNCHANGED <<world_x, screen_x, camera_x>>]_vars

\* C24, amended: such an input, when no Block stops it, puts the character
\* onto the boundary: world_x becomes TOTAL_MAP_WIDTH - CHAR_WIDTH, or 0,
\* a move by less than MOVEMENT_SPEED when the character was short of the
\* boundary, with screen_x and camera_x following (their sum is world_x);
\* the coordinates stay as they are only when it was on the boundary.
C24_ClampedOntoBoundary ==
    [][(variant = "grid" /\ MoveStep /\ ~BlockedStep) =>
         /\ (event'.key = "Right"
               /\ world_x + MOVEMENT_SPEED > TOTAL_MAP_WIDTH - CHAR_WIDTH)
              => /\ world_x' = TOTAL_MAP_WIDTH - CHAR_WIDTH
                 /\ camera_x' + screen_x' = world_x'
                 /\ world_x = world_x' => UNCHANGED <<screen_x, camera_x>>
         /\ (event'.key = "Left" /\ world_x - MOVEMENT_SPEED < 0)
              => /\ world_x' = 0
                 /\ camera_x' + screen_x' = world_x'
                 /\ world_x = world_x' => UNCHANGED <<screen_x, camera_x>>]_vars

\* The grid program's character has just arrived on the right boundary by
\* a Right input.  The boundary is not a whole number of steps from the
\* start (nor is any position that is 4 or 8 short of it), so a clamped
\* step has been taken.
C24_ArrivedOnRightBoundary ==
    /\ variant = "grid" /\ pc = "physics" /\ event.key = "Right"
    /\ world_x = TOTAL_MAP_WIDTH - CHAR_WIDTH
    /\ (TOTAL_MAP_WIDTH - CHAR_WIDTH - CHAR_START_X) % MOVEMENT_SPEED # 0
    /\ vibro = 1

C26_CeilingHitThenFall ==
    [][/\ HitsCeiling =>
            /\ y_pos' = y_pos
            /\ y_velocity' = 0
            /\ vibro' = 1
            /\ ~on_ground'
       /\ (GridTick /\ ~on_ground /\ y_velocity = 0) =>
            \/ y_pos' = y_pos + GRAVITY /\ y_velocity' = GRAVITY
            \/ on_ground' /\ y_velocity' = 0]_vars

\* The tick has just stopped the character under the Block of row 2: it is
\* in the air with velocity 0, one pixel below the Block, the bump emitted.
C26_StoppedUnderBlock ==
    /\ variant = "grid" /\ pc = "input" /\ vibro = 1
    /\ y_velocity = 0 /\ ~on_ground
    /\ y_pos = 3 * CELL_SIZE + 1
    /\ get_cell_at(grid, world_x + CHAR_WIDTH - 1, y_pos - 2) = CELL_BLOCK

\* C27: in the grid program pill collection runs at the character's box at
\* the end of every physics tick, however the tick resolved the vertical
\* move: after a tick no cell the box overlaps is a Pill.
C27_NoPillUnderBoxAfterTick ==
    [][GridTick =>
         PillSpan(world_x', y_pos') \cap PillCells(grid') = {}]_vars

\* C28: in the grid variant y_pos never goes above the jump cap
\* GROUND_Y - CHAR_HEIGHT - MAX_JUMP_HEIGHT, and a physics tick whose
\* tentative position is above the cap leaves the character exactly at the
\* cap with y_velocity 0.
C28_CappedTickStopsAtCap ==
    /\ [](variant = "grid" => y_pos >= MaxHeightY)
    /\ [][(GridTick /\ Capped) =>
            (y_pos' = MaxHeightY /\ y_velocity' = 0)]_vars

\* A tick was capped: the character hangs at the cap with no velocity, which
\* neither a landing (y_pos a multiple of CELL_SIZE) nor a hit on a Block
\* above (the tentative position of a rising character at the cap is above
\* the cap) produces.
C28_HangsAtCap ==
    /\ variant = "grid"
    /\ pc = "input"
    /\ y_pos = MaxHeightY
    /\ y_velocity = 0
    /\ ~on_ground

\* C29: each pill is counted once: in every state of the grid variant after
\* generation score + 10 * pill_count is 10 times the number of pills
\* init_grid placed, and pill_count is not negative.
C29_EachPillCountedOnce ==
    (variant = "grid" /\ Generated) =>
        /\ score + PILL_SCORE * pill_count = PILL_SCORE * gen.pills_placed
        /\ pill_count >= 0

\* One tick picked up the pills of two rows: the pills at (4,3) and (5,3) are
\* gone and the pill at (4,4) is not, which only the first tick of a session
\* does, after a step Left from the start, with the box over rows 4 and 5
\* and columns 2 and 3.
C29_TwoRowsInOneTick ==
    /\ variant = "grid" /\ pc = "input"
    /\ PillCells(PlayGrid.grid) \ PillCells(grid) = {<<4, 3>>, <<5, 3>>}
    /\ score = 2 * PILL_SCORE
    /\ pill_count = PlayGrid.pill_count - 2

\* C30: in the music program the speaker is silent whenever music_enabled is
\* false: once a Down press has switched the music off, no step of the music
\* thread starts the speaker before music_enabled is true again.
C30_SilentWhileMusicOff ==
    (variant = "music" /\ ~state.music_enabled) => ~music.speaker

\* C31: a Left or Right input sets the facing direction to the input's
\* direction, whether the move is made, stopped by a Block or refused at a
\* boundary of the world.
C31_FacingFollowsInput ==
    [][MoveStep => (facing_right' = (event'.key = "Right"))]_vars

\* A Left input has just been stopped by a Block (the bump did not come from
\* arriving on a boundary), and the character faces left.
C31_FacesLeftAtBlock ==
    /\ variant = "grid" /\ pc = "physics"
    /\ event.key = "Left"
    /\ vibro = 1
    /\ world_x \notin {0, TOTAL_MAP_WIDTH - CHAR_WIDTH}
    /\ check_block_collision(grid, world_x - MOVEMENT_SPEED, y_pos)
    /\ ~facing_right

\* C32: in the grid variant the character's box, clear of every Block at the
\* start of the session, overlaps no Block cell in any reachable state.
C32_NeverInsideBlock ==
    (variant = "grid" /\ ~BoxInBlock(grid, CHAR_START_X, GROUND_Y - CHAR_HEIGHT))
        => ~BoxInBlock(grid, world_x, y_pos)

\* C33: once init_grid has returned, whatever rand() drew, the start box at
\* world_x = CHAR_START_X, y_pos = GROUND_Y - CHAR_HEIGHT overlaps no Block.
C33_StartBoxClearOfBlocks ==
    (variant = "grid" /\ Generated /\ world_x = CHAR_START_X
       /\ y_pos = GROUND_Y - CHAR_HEIGHT)
        => BoxCells(world_x, y_pos) \cap BlockCells(grid) = {}

\* C34: in the grid variant an Up press handled while the character rests on
\* top of a Block starts a jump, whichever idle tick it follows: y_velocity
\* becomes a jump velocity and on_ground false.
C34_UpPressOnBlockJumps ==
    [][(UpStep /\ RestingOnBlock) =>
          (y_velocity' \in {SMALL_JUMP_VELOCITY, BIG_JUMP_VELOCITY}
             /\ ~on_ground')]_vars

\* C35: in the double-press variants an Up press handled while on_ground is
\* false changes none of y_velocity, y_pos, on_ground and last_jump_time.
C35_PressInTheAirIsIgnored ==
    [][(UpStep /\ ~on_ground) =>
          UNCHANGED <<y_velocity, y_pos, on_ground, last_jump_time>>]_vars

\* An Up press has just been handled in the air at a later tick value than
\* the last accepted press, which is still the one remembered.
C35_PressLeftNoTrace ==
    /\ pc = "physics" /\ event = Ev("Up", "Press")
    /\ ~on_ground
    /\ jumped /\ last_jump_time < tick

\* C36: in the grid variant, while physics ticks keep running, the character
\* comes to on_ground = true with y_velocity = 0 from every reachable state,
\* whatever inputs arrive meanwhile (an Up press in the air is ignored).
C36_EveryFlightEndsInLanding ==
    (variant = "grid" /\ ~on_ground) ~> (on_ground /\ y_velocity = 0)

\* The character has landed on top of a Block, which only the landing
\* branch of a falling tick does.
C36_LandedOnBlock ==
    /\ variant = "grid" /\ pc = "input"
    /\ on_ground /\ y_velocity = 0
    /\ y_pos < GROUND_Y - CHAR_HEIGHT

\* C37: in the grid variant a cell turns from CELL_PILL to CELL_EMPTY only
\* in a physics tick at whose end the character's box overlaps the cell's
\* pixel area, also when y_pos is negative.
C37_CollectedCellsAreUnderBox ==
    [][variant = "grid" =>
          \A rc \in PillCells(grid) \ PillCells(grid') :
              pc = "physics" /\ rc \in BoxCells(world_x', y_pos')]_vars

\* C38: in the double-press variants the first Up press a session accepts
\* gives the small jump, at every value of the tick counter.
C38_FirstPressIsSmallJump ==
    [][(UpStep /\ on_ground /\ ~jumped) =>
          y_velocity' = SMALL_JUMP_VELOCITY]_vars

\* C39: in the grid variant a physics tick leaves world_x, screen_x, camera_x
\* and facing_right unchanged, and a Left or Right input leaves y_pos,
\* y_velocity, on_ground, the grid, score and pill_count unchanged.
C39_HorizontalAndVerticalApart ==
    [][/\ GridTick =>
             UNCHANGED <<world_x, screen_x, camera_x, facing_right>>
       /\ (variant = "grid" /\ MoveStep) =>
             UNCHANGED <<y_pos, y_velocity, on_ground, grid, score,
                         pill_count>>]_vars

\* A Left or Right input has just moved the character over a Pill in the
\* air, and the Pill is still in its cell.
C39_MovedOverPillInTheAir ==
    /\ variant = "grid" /\ pc = "physics"
    /\ event.key \in {"Left", "Right"}
    /\ vibro = 0
    /\ ~on_ground /\ y_velocity # 0
    /\ BoxCells(world_x, y_pos) \cap PillCells(grid) # {}

\* C40: in the grid variant on_ground implies y_velocity = 0 in every
\* reachable state, and y_velocity is within
\* [BIG_JUMP_VELOCITY, MAX_FALL_SPEED].
C40_GroundedMeansStill ==
    variant = "grid" =>
        /\ on_ground => y_velocity = 0
        /\ BIG_JUMP_VELOCITY <= y_velocity /\ y_velocity <= MAX_FALL_SPEED

\* The character falls at MAX_FALL_SPEED after a big jump: gravity would
\* have taken the velocity past it.
C40_FallsAtFullSpeed ==
    /\ variant = "grid" /\ pc = "input"
    /\ ~on_ground /\ y_velocity = MAX_FALL_SPEED
    /\ jumped

=============================================================================
